---- MODULE Spec2Model ----
(***************************************************************************)
(* A model of ts-cli's interactive client: the session held by CommandLine *)
(* (internal/prompt.go), its executor and handlers, the HTTP client        *)
(* (internal/http_client.go) and the result renderer.                      *)
(*                                                                         *)
(* A Go string is a sequence of one-character strings, one per byte (the   *)
(* model's alphabet is ASCII).  A Go pointer or error is a sequence of     *)
(* length 0 (nil) or 1 (the value pointed to, the error's message).        *)
(***************************************************************************)
EXTENDS Integers, Sequences, FiniteSets, TLC

(***************************************************************************)
(* Bytes and strings                                                       *)
(***************************************************************************)

\* The printable ASCII characters in byte order, from 32 (space) to 126.  Byte 96,
\* the grave accent, is spelled out: no string of the model holds it.
Ascii ==
  <<" ","!","\"","#","$","%","&","'","(",")","*","+",",","-",".","/",
    "0","1","2","3","4","5","6","7","8","9",":",";","<","=",">","?",
    "<<",">>A","B","C","D","E","F","G","H","I","J","K","L","M","N","O",
    "P","Q","R","S","T","U","V","W","X","Y","Z","[","\\","]","^","_",
    "(backtick)","a","b","c","d","e","f","g","h","i","j","k","l","m","n","o",
    "p","q","r","s","t","u","v","w","x","y","z","{","|","}","~">>

Chars == {Ascii[i] : i \in 1..Len(Ascii)} \cup {"\t", "\n", "\r", "\f"}

\* The byte value of a character.
ByteOf ==
  [c \in Chars |->
     CASE c = "\t" -> 9
       [] c = "\n" -> 10
       [] c = "\f" -> 12
       [] c = "\r" -> 13
       [] OTHER -> 31 + (CHOOSE i \in 1..Len(Ascii) : Ascii[i] = c)]

\* The character of a byte value (the inverse of ByteOf).
CharOf(b) == CHOOSE c \in Chars : ByteOf[c] = b

Digits == <<"0","1","2","3","4","5","6","7","8","9">>
Letters == {Ascii[i] : i \in 34..59} \cup {Ascii[i] : i \in 66..91}

\* unicode.IsSpace on the ASCII range, as strings.TrimSpace and strings.Fields use it.
IsSpace(c) == c \in {" ", "\t", "\n", "\r", "\f"}

RECURSIVE Concat(_)
\* The concatenation of a sequence of strings.
Concat(ss) == IF ss = <<>> THEN <<>> ELSE Head(ss) \o Concat(Tail(ss))

RECURSIVE Join(_, _)
\* strings.Join
Join(ss, sep) ==
  IF ss = <<>> THEN <<>>
  ELSE IF Len(ss) = 1 THEN ss[1]
  ELSE ss[1] \o sep \o Join(Tail(ss), sep)

RECURSIVE TrimLeft(_)
TrimLeft(str) ==
  IF str # <<>> /\ IsSpace(Head(str)) THEN TrimLeft(Tail(str)) ELSE str

RECURSIVE TrimRight(_)
TrimRight(str) ==
  IF str # <<>> /\ IsSpace(str[Len(str)])
  THEN TrimRight(SubSeq(str, 1, Len(str) - 1))
  ELSE str

\* strings.TrimSpace
TrimSpace(str) == TrimRight(TrimLeft(str))

RECURSIVE FieldsFrom(_, _)
\* strings.Fields, with cur the field being read.
FieldsFrom(str, cur) ==
  IF str = <<>> THEN (IF cur = <<>> THEN <<>> ELSE <<cur>>)
  ELSE IF IsSpace(Head(str))
       THEN (IF cur = <<>> THEN <<>> ELSE <<cur>>) \o FieldsFrom(Tail(str), <<>>)
       ELSE FieldsFrom(Tail(str), Append(cur, Head(str)))

\* strings.Fields
Fields(str) == FieldsFrom(str, <<>>)

RECURSIVE StrLess(_, _)
\* The order of Go's string comparison (and of sort.Strings): bytewise lexicographic.
StrLess(a, b) ==
  IF b = <<>> THEN FALSE
  ELSE IF a = <<>> THEN TRUE
  ELSE IF ByteOf[Head(a)] # ByteOf[Head(b)] THEN ByteOf[Head(a)] < ByteOf[Head(b)]
  ELSE StrLess(Tail(a), Tail(b))

RECURSIVE InsertSorted(_, _)
InsertSorted(sorted, x) ==
  IF sorted = <<>> THEN <<x>>
  ELSE IF StrLess(x, Head(sorted)) THEN <<x>> \o sorted
  ELSE <<Head(sorted)>> \o InsertSorted(Tail(sorted), x)

RECURSIVE SortStrings(_)
\* sort.Strings: the strings in ascending order.
SortStrings(ss) ==
  IF ss = <<>> THEN <<>>
  ELSE InsertSorted(SortStrings(SubSeq(ss, 1, Len(ss) - 1)), ss[Len(ss)])

RECURSIVE Itoa(_)
\* The decimal form of a natural number (fmt's %d).
Itoa(n) == IF n < 10 THEN <<Digits[n + 1]>> ELSE Itoa(n \div 10) \o <<Digits[(n % 10) + 1]>>

\* Whether sub occurs in str as a contiguous part.
Contains(str, sub) ==
  \E i \in 1..(Len(str) - Len(sub) + 1) : SubSeq(str, i, i + Len(sub) - 1) = sub

HasPrefix(str, pre) ==
  Len(str) >= Len(pre) /\ SubSeq(str, 1, Len(pre)) = pre

\* The number of places at which sub occurs in str.
Count(str, sub) ==
  Cardinality({i \in 1..(Len(str) - Len(sub) + 1) : SubSeq(str, i, i + Len(sub) - 1) = sub})

(***************************************************************************)
(* Go's nil and non-nil pointers and errors                                *)
(***************************************************************************)

Nil == <<>>
Ptr(x) == <<x>>
Deref(p) == p[1]

(***************************************************************************)
(* encoding/base64 and net/url, as http_client.go uses them                *)
(***************************************************************************)

B64Alphabet ==
  <<"A","B","C","D","E","F","G","H","I","J","K","L","M","N","O","P",
    "Q","R","S","T","U","V","W","X","Y","Z","a","b","c","d","e","f",
    "g","h","i","j","k","l","m","n","o","p","q","r","s","t","u","v",
    "w","x","y","z","0","1","2","3","4","5","6","7","8","9","+","/">>

B64(n) == B64Alphabet[n + 1]

RECURSIVE EncodeToString(_)
\* base64.StdEncoding.EncodeToString
EncodeToString(str) ==
  IF str = <<>> THEN <<>>
  ELSE LET b1 == ByteOf[str[1]] IN
       IF Len(str) = 1
       THEN <<B64(b1 \div 4), B64((b1 % 4) * 16), "=", "=">>
       ELSE LET b2 == ByteOf[str[2]] IN
            IF Len(str) = 2
            THEN <<B64(b1 \div 4), B64((b1 % 4) * 16 + (b2 \div 16)),
                   B64((b2 % 16) * 4), "=">>
            ELSE LET b3 == ByteOf[str[3]] IN
                 <<B64(b1 \div 4), B64((b1 % 4) * 16 + (b2 \div 16)),
                   B64((b2 % 16) * 4 + (b3 \div 64)), B64(b3 % 64)>>
                 \o EncodeToString(SubSeq(str, 4, Len(str)))

HexDigits == <<"0","1","2","3","4","5","6","7","8","9","A","B","C","D","E","F">>

\* Whether url.QueryEscape leaves the character as it is.
Unreserved(c) == c \in Letters \/ c \in {Digits[i] : i \in 1..10} \/ c \in {"-", "_", ".", "~"}

RECURSIVE QueryEscape(_)
\* url.QueryEscape
QueryEscape(str) ==
  IF str = <<>> THEN <<>>
  ELSE LET c == Head(str) IN
       (IF Unreserved(c) THEN <<c>>
        ELSE IF c = " " THEN <<"+">>
        ELSE <<"%", HexDigits[(ByteOf[c] \div 16) + 1], HexDigits[(ByteOf[c] % 16) + 1]>>)
       \o QueryEscape(Tail(str))

HexValue(h) == (CHOOSE i \in 1..16 : HexDigits[i] = h) - 1

RECURSIVE QueryUnescape(_)
\* url.QueryUnescape, on the output of QueryEscape
QueryUnescape(str) ==
  IF str = <<>> THEN <<>>
  ELSE IF Head(str) = "+" THEN <<" ">> \o QueryUnescape(Tail(str))
  ELSE IF Head(str) = "%" /\ Len(str) >= 3
       THEN <<CharOf(HexValue(str[2]) * 16 + HexValue(str[3]))>>
            \o QueryUnescape(SubSeq(str, 4, Len(str)))
  ELSE <<Head(str)>> \o QueryUnescape(Tail(str))

RECURSIVE Split(_, _, _)
\* strings.Split on a one-character separator, with cur the part being read.
Split(str, sep, cur) ==
  IF str = <<>> THEN <<cur>>
  ELSE IF Head(str) = sep THEN <<cur>> \o Split(Tail(str), sep, <<>>)
  ELSE Split(Tail(str), sep, Append(cur, Head(str)))

\* The position of the first c in str, or 0.
IndexOf(str, c) ==
  IF \E i \in 1..Len(str) : str[i] = c
  THEN CHOOSE i \in 1..Len(str) : str[i] = c /\ \A j \in 1..(i - 1) : str[j] # c
  ELSE 0

\* url.ParseQuery: the values of field key in a form-encoded body, in order.
FormValues(body, key) ==
  LET parts == Split(body, "&", <<>>)
      keyOf(p) == QueryUnescape(IF IndexOf(p, "=") = 0 THEN p ELSE SubSeq(p, 1, IndexOf(p, "=") - 1))
      valOf(p) == QueryUnescape(IF IndexOf(p, "=") = 0 THEN <<>> ELSE SubSeq(p, IndexOf(p, "=") + 1, Len(p)))
      hits == SelectSeq(parts, LAMBDA p : p # <<>> /\ keyOf(p) = key)
  IN [i \in 1..Len(hits) |-> valOf(hits[i])]

(***************************************************************************)
(* The commands (prompt.go, lines 19-35)                                   *)
(***************************************************************************)

Rp == <<"r","p">>
Set == <<"s","e","t">>
Use == <<"u","s","e">>
Help == <<"h","e","l","p">>
Show == <<"s","h","o","w">>
Drop == <<"d","r","o","p">>
Kill == <<"k","i","l","l">>
Auth == <<"a","u","t","h">>
Grant == <<"g","r","a","n","t">>
Alter == <<"a","l","t","e","r">>
Revoke == <<"r","e","v","o","k","e">>
Insert == <<"i","n","s","e","r","t">>
Create == <<"c","r","e","a","t","e">>
Explain == <<"e","x","p","l","a","i","n">>
\* The constant Precision of prompt.go; the name Precision is the session's field here.
PrecisionCommand == <<"p","r","e","c","i","s","i","o","n">>

\* The commands that executor forwards to query.
QueryCommands == {Show, Drop, Create, Explain, Kill, Grant, Alter, Revoke, Set}

\* The lines on which executor ends the process.
ExitLines == {<<"e","x","i","t">>, <<"q","u","i","t">>, <<"\\","q">>}

(***************************************************************************)
(* The bounded inputs                                                      *)
(***************************************************************************)

\* The most whitespace-delimited tokens of an input line.
MaxTokens == 3

\* First tokens: every command, the exit words, and words that are no command.
FirstTokens ==
  QueryCommands \cup {Rp, Use, Help, Auth, Insert, PrecisionCommand}
    \cup ExitLines \cup {<<"U","S","E">>, <<"i","n","s","e","r","t","s">>}

\* The first tokens that lines of several tokens begin with.
ArgCommands == {Use, Rp, PrecisionCommand, Insert, Show, Help, <<"e","x","i","t">>, <<"U","S","E">>}

\* Second tokens, and the tokens after them.
ArgTokens == {<<"d","b">>, <<"r","=","1">>}
MoreTokens == {<<"v","=","2">>}

\* What separates two tokens and what surrounds the line.
Spacings == {[sep |-> <<" ">>, pad |-> <<>>], [sep |-> <<"\t"," ">>, pad |-> <<" ">>]}

TokenSeqs ==
  {<<f>> : f \in FirstTokens}
    \cup UNION {{<<f, a>> \o more : f \in ArgCommands, a \in ArgTokens,
                                    more \in [1..(n - 2) -> MoreTokens]} :
                  n \in 2..MaxTokens}

\* The lines the prompt front end may hand to executor.
Lines ==
  {sp.pad \o Join(ts, sp.sep) \o sp.pad : ts \in TokenSeqs, sp \in Spacings}
    \cup {<<>>, <<" ","\t">>}

\* What fmt.Scanf("%s\n") stores in auth: nothing (nil), or a token.
ScanResults == {Nil, Ptr(<<"u">>)}

\* What term.ReadPassword returns in auth.
PasswordResults == {<<>>, <<"p",":","w">>}

(***************************************************************************)
(* The result model (prompt.go, lines 272-294) and its JSON decoding       *)
(***************************************************************************)

\* A decoded JSON scalar: nil, a bool, a float64 (here a natural number) or a string.
Null == [t |-> "null", b |-> FALSE, n |-> 0, str |-> <<>>]
Bool(x) == [t |-> "bool", b |-> x, n |-> 0, str |-> <<>>]
Num(x) == [t |-> "num", b |-> FALSE, n |-> x, str |-> <<>>]
Str(x) == [t |-> "str", b |-> FALSE, n |-> 0, str |-> x]

\* type Series
Series(name, tags, columns, values) ==
  [Name |-> name, Tags |-> tags, Columns |-> columns, Values |-> values]

\* type SeriesResult: Series holds pointers, nil for a JSON null.
SeriesResult(series, error) == [Series |-> series, Error |-> error]

\* type QueryResult: Results holds pointers, nil for a JSON null.
QueryResult(results, error) == [Results |-> results, Error |-> error]

\* new(QueryResult)
ZeroQueryResult == QueryResult(<<>>, <<>>)

\* Response bytes: a JSON text that decodes into the QueryResult value, or not.
JsonBody(qr) == [valid |-> TRUE, value |-> qr]
GarbageBody == [valid |-> FALSE, value |-> ZeroQueryResult]

\* json.Unmarshal(r, qr)
Unmarshal(r) ==
  IF r.valid
  THEN [err |-> Nil, qr |-> r.value]
  ELSE [err |-> Ptr(<<"i","n","v","a","l","i","d"," ","c","h","a","r","a","c","t","e","r"," ","'","<","'"," ","l","o","o","k","i","n","g"," ","f","o","r"," ","b","e","g","i","n","n","i","n","g"," ","o","f"," ","v","a","l","u","e">>),
        qr |-> ZeroQueryResult]

RECURSIVE StripZeros(_)
\* A digit string without its trailing zeros.
StripZeros(ds) ==
  IF ds # <<>> /\ ds[Len(ds)] = "0" THEN StripZeros(SubSeq(ds, 1, Len(ds) - 1)) ELSE ds

\* fmt's %v of a float64 holding a natural number: strconv's shortest %g, which
\* turns to the exponent form from 1e+06 on.
FormatFloat(n) ==
  LET ds == Itoa(n)
      exp == Len(ds) - 1
      mant == StripZeros(ds)
  IN IF exp < 6 THEN ds
     ELSE <<mant[1]>>
          \o (IF Len(mant) > 1 THEN <<".">> \o SubSeq(mant, 2, Len(mant)) ELSE <<>>)
          \o <<"e","+">> \o (IF exp < 10 THEN <<"0">> ELSE <<>>) \o Itoa(exp)

\* fmt.Sprintf("%v", val)
Sprintf_v(val) ==
  CASE val.t = "null" -> <<"<","n","i","l",">">>
    [] val.t = "bool" -> (IF val.b THEN <<"t","r","u","e">> ELSE <<"f","a","l","s","e">>)
    [] val.t = "num" -> FormatFloat(val.n)
    [] OTHER -> val.str

(***************************************************************************)
(* Standard output: what each print call writes, and each rendered table   *)
(***************************************************************************)

\* fmt.Printf / fmt.Fprintf of a text.
Text(txt) == [kind |-> "text", text |-> txt, header |-> <<>>, rows |-> <<>>]
\* fmt.Println of a text.
Println(txt) == Text(txt \o <<"\n">>)
\* tablewriter's Render of a table with this header and these appended rows.
Table(header, rows) == [kind |-> "table", text |-> <<>>, header |-> header, rows |-> rows]

(***************************************************************************)
(* The renderer (prompt.go, lines 210-255)                                 *)
(***************************************************************************)

\* prettyTable: the header set and the rows appended to the table writer.
prettyTable(series) ==
  Table(series.Columns,
        [i \in 1..Len(series.Values) |->
           [j \in 1..Len(series.Values[i]) |-> Sprintf_v(series.Values[i][j])]])

RECURSIVE tagsLoop(_, _, _)
\* The loop over series.Tags (lines 222-225), keys being the keys in the order
\* the map's iteration yields them.
tagsLoop(tagMap, keys, tags) ==
  IF keys = <<>> THEN tags
  ELSE tagsLoop(tagMap, Tail(keys),
                SortStrings(Append(tags, Head(keys) \o <<"=">> \o tagMap[Head(keys)])))

\* The body of the loop over result.Series (lines 221-239) for one series; order
\* lists every tag key, in the order Go's map iteration happens to take.
prettySeries(series, order) ==
  LET tags == tagsLoop(series.Tags, SelectSeq(order, LAMBDA k : k \in DOMAIN series.Tags), <<>>)
  IN (IF series.Name # <<>> THEN <<Text(<<"n","a","m","e",":"," ">> \o series.Name \o <<"\n">>)>> ELSE <<>>)
     \o (IF Len(tags) # 0 THEN <<Text(<<"t","a","g","s",":"," ">> \o Join(tags, <<","," ">>) \o <<"\n">>)>> ELSE <<>>)
     \o <<prettyTable(series)>>
     \o <<Println(Itoa(Len(series.Columns)) \o <<" ","c","o","l","u","m","n","s",","," ">>
                  \o Itoa(Len(series.Values)) \o <<" ","r","o","w","s"," ","i","n"," ","s","e","t">>)>>
     \o <<Println(<<>>)>>

RECURSIVE seriesLoop(_, _)
\* The loop over result.Series (line 220): a nil *Series panics at series.Tags.
seriesLoop(list, order) ==
  IF list = <<>> THEN [stdout |-> <<>>, panic |-> FALSE]
  ELSE IF Head(list) = Nil THEN [stdout |-> <<>>, panic |-> TRUE]
  ELSE LET rest == seriesLoop(Tail(list), order)
       IN [stdout |-> prettySeries(Deref(Head(list)), order) \o rest.stdout,
           panic |-> rest.panic]

RECURSIVE resultsLoop(_, _)
\* The loop over qr.Results (line 219): a nil *SeriesResult panics at result.Series.
resultsLoop(list, order) ==
  IF list = <<>> THEN [stdout |-> <<>>, panic |-> FALSE]
  ELSE IF Head(list) = Nil THEN [stdout |-> <<>>, panic |-> TRUE]
  ELSE LET first == seriesLoop(Deref(Head(list)).Series, order)
       IN IF first.panic THEN first
          ELSE LET rest == resultsLoop(Tail(list), order)
               IN [stdout |-> first.stdout \o rest.stdout, panic |-> rest.panic]

\* pretty, printing the response's error string when there is one.
pretty_surfacing(r, order) ==
  LET dec == Unmarshal(r)
  IN IF dec.err # Nil
     THEN [stdout |-> <<Println(Deref(dec.err))>>, panic |-> FALSE]
     ELSE LET out == resultsLoop(dec.qr.Results, order)
          IN [stdout |-> (IF dec.qr.Error # <<>> THEN <<Println(dec.qr.Error)>> ELSE <<>>)
                           \o out.stdout,
              panic |-> out.panic]

\* pretty: what it writes, and whether it panics.
pretty(r, order) ==
  LET dec == Unmarshal(r)
  IN IF dec.err # Nil
     THEN [stdout |-> <<Println(Deref(dec.err))>>, panic |-> FALSE]
     ELSE resultsLoop(dec.qr.Results, order)

(***************************************************************************)
(* The state                                                               *)
(***************************************************************************)

VARIABLES
  Username, Password, Precision, Database, RetentionPolicy,  \* the CommandLine
  BasicToken,   \* stdHttpClient.BasicToken
  pc,           \* "prompt": waiting for a line; "returned": executor has returned;
                \* "exited": os.Exit(0) was called; "crashed": a panic ended the process
  s,            \* the trimmed line of the last call of executor
  ran,          \* the handlers that call ran, in order
  rendered,     \* whether that call invoked pretty
  stdout,       \* what that call wrote to standard output
  requests,     \* the HTTP requests that call issued
  transport,    \* what the transport did with that call's request
  lastUse,      \* history: the second token of the last line that had
                \* at least two tokens, the first of them "use"
  afterFailure  \* history: the call before this one was a query line on which
                \* the transport failed

Session == <<Database, RetentionPolicy, Precision, Username, Password>>
observed == <<s, ran, rendered, stdout, requests, transport>>
vars == <<Username, Password, Precision, Database, RetentionPolicy, BasicToken, pc,
          s, ran, rendered, stdout, requests, transport, lastUse, afterFailure>>

(***************************************************************************)
(* The HTTP client (http_client.go)                                        *)
(***************************************************************************)

\* The host and port NewHttpClient was given.
Host == <<"h">>
Port == 8086

\* generateBasicToken: the value it stores in BasicToken.
generateBasicToken(u, p) ==
  LET encodeString == u \o <<":">> \o p
  IN <<"B","a","s","i","c"," ">> \o EncodeToString(encodeString)

\* What the transport does with a request: c.Do fails (line 83), io.ReadAll fails
\* (line 88), or a response with this status code and body arrives.
TransportErrors ==
  {Ptr(<<"c","o","n","t","e","x","t"," ","d","e","a","d","l","i","n","e"," ","e","x","c","e","e","d","e","d"," ","(","C","l","i","e","n","t",".","T","i","m","e","o","u","t"," ","e","x","c","e","e","d","e","d"," ","w","h","i","l","e"," ","a","w","a","i","t","i","n","g"," ","h","e","a","d","e","r","s",")">>),
   Ptr(<<"u","n","e","x","p","e","c","t","e","d"," ","E","O","F">>)}
Outcome(err, status, body) == [err |-> err, status |-> status, body |-> body]
\* No request was made.
NoOutcome == Outcome(Nil, 0, GarbageBody)

\* http.NewRequest refuses a URL that holds a control byte.
InvalidURL(u) == \E i \in 1..Len(u) : ByteOf[u[i]] < 32 \/ ByteOf[u[i]] = 127

\* innerRequest, turning a status code of 400 or more into an error.
innerRequest_checking(u, reader, outcome) ==
  IF InvalidURL(u)
  THEN [requests |-> <<>>, r |-> GarbageBody,
        err |-> Ptr(<<"n","e","t","/","u","r","l",":"," ","i","n","v","a","l","i","d"," ","c","o","n","t","r","o","l"," ","c","h","a","r","a","c","t","e","r"," ","i","n"," ","U","R","L">>)]
  ELSE LET req == [url |-> u, body |-> reader,
                   ContentType |-> <<"a","p","p","l","i","c","a","t","i","o","n","/","x","-","w","w","w","-","f","o","r","m","-","u","r","l","e","n","c","o","d","e","d">>,
                   Authorization |-> IF BasicToken # <<>>
                                     THEN Ptr(<<"B","a","s","i","c"," ">> \o BasicToken)
                                     ELSE Nil]
           err == IF outcome.err = Nil /\ outcome.status >= 400
                  THEN Ptr(<<"u","n","e","x","p","e","c","t","e","d"," ","s","t","a","t","u","s"," ">> \o Itoa(outcome.status))
                  ELSE outcome.err
       IN [requests |-> <<req>>,
           r |-> IF err # Nil THEN GarbageBody ELSE outcome.body,
           err |-> err]

\* innerRequest: the requests issued (none when NewRequest fails), and the result.
innerRequest(u, reader, outcome) ==
  IF InvalidURL(u)
  THEN [requests |-> <<>>, r |-> GarbageBody,
        err |-> Ptr(<<"n","e","t","/","u","r","l",":"," ","i","n","v","a","l","i","d"," ","c","o","n","t","r","o","l"," ","c","h","a","r","a","c","t","e","r"," ","i","n"," ","U","R","L">>)]
  ELSE LET req == [url |-> u, body |-> reader,
                   ContentType |-> <<"a","p","p","l","i","c","a","t","i","o","n","/","x","-","w","w","w","-","f","o","r","m","-","u","r","l","e","n","c","o","d","e","d">>,
                   Authorization |-> IF BasicToken # <<>>
                                     THEN Ptr(<<"B","a","s","i","c"," ">> \o BasicToken)
                                     ELSE Nil]
       IN [requests |-> <<req>>,
           r |-> IF outcome.err # Nil THEN GarbageBody ELSE outcome.body,
           err |-> outcome.err]

RECURSIVE SortedKeys(_)
\* The keys of a url.Values in the order Encode writes them.
SortedKeys(keys) ==
  IF keys = {} THEN <<>>
  ELSE LET least == CHOOSE k \in keys : \A other \in keys : ~StrLess(other, k)
       IN <<least>> \o SortedKeys(keys \ {least})

\* url.Values.Encode, of a form that holds one value for each key.
Encode(qv) ==
  LET keys == SortedKeys(DOMAIN qv)
  IN Join([i \in 1..Len(keys) |-> QueryEscape(keys[i]) \o <<"=">> \o QueryEscape(qv[keys[i]])],
          <<"&">>)

\* HttpClient.query with the form fields db and rp taking each other's value.
HttpClient_query_swapped(q, outcome) ==
  LET qv == (<<"d","b">> :> q.RetentionPolicy) @@ (<<"r","p">> :> q.Database)
              @@ (<<"q">> :> q.Command) @@ (<<"e","p","o","c","h">> :> q.Precision)
      u == <<"h","t","t","p",":","/","/">> \o Host \o <<":">> \o Itoa(Port) \o <<"/","q","u","e","r","y">>
  IN innerRequest(u, Encode(qv), outcome)

\* HttpClient.query
HttpClient_query(q, outcome) ==
  LET qv == (<<"d","b">> :> q.Database) @@ (<<"r","p">> :> q.RetentionPolicy)
              @@ (<<"q">> :> q.Command) @@ (<<"e","p","o","c","h">> :> q.Precision)
      u == <<"h","t","t","p",":","/","/">> \o Host \o <<":">> \o Itoa(Port) \o <<"/","q","u","e","r","y">>
  IN innerRequest(u, Encode(qv), outcome)

\* HttpClient.write
HttpClient_write(w, outcome) ==
  LET u == <<"h","t","t","p",":","/","/">> \o Host \o <<":">> \o Itoa(Port) \o <<"/","w","r","i","t","e","?","d","b","=">> \o w.Database
             \o <<"&","r","p","=">> \o w.RetentionPolicy
  IN innerRequest(u, w.LineProtocol, outcome)

(***************************************************************************)
(* The handlers of CommandLine (prompt.go, lines 118-199)                  *)
(***************************************************************************)

\* command: the first field of a trimmed, non-empty line.
command(arg) == Fields(arg)[1]

\* use, clearing Database before it checks the arity.
use_clearing(arg) ==
  LET parts == Fields(arg)
  IN IF Len(parts) <= 1
     THEN [err |-> Ptr(<<"i","n","v","a","l","i","d"," ","a","r","g","u","m","e","n","t",","," ","u","s","e"," ","[","d","b"," ","n","a","m","e","]">>), Database |-> <<>>]
     ELSE [err |-> Nil, Database |-> parts[2]]

\* use: the error returned and the Database left.
use(arg) ==
  LET parts == Fields(arg)
  IN IF Len(parts) <= 1
     THEN [err |-> Ptr(<<"i","n","v","a","l","i","d"," ","a","r","g","u","m","e","n","t",","," ","u","s","e"," ","[","d","b"," ","n","a","m","e","]">>), Database |-> Database]
     ELSE [err |-> Nil, Database |-> parts[2]]

\* retentionPolicy: the error returned and the RetentionPolicy left.
retentionPolicy(arg) ==
  LET parts == Fields(arg)
  IN IF Len(parts) <= 1
     THEN [err |-> Ptr(<<"i","n","v","a","l","i","d"," ","a","r","g","u","m","e","n","t",","," ","r","p"," ","[","r","e","t","e","n","t","i","o","n"," ","p","o","l","i","c","y","]">>),
           RetentionPolicy |-> RetentionPolicy]
     ELSE [err |-> Nil, RetentionPolicy |-> parts[2]]

\* precision, resetting the Precision when the argument is missing.
precision_clearing(arg) ==
  LET parts == Fields(arg)
  IN IF Len(parts) <= 1
     THEN [err |-> Ptr(<<"i","n","v","a","l","i","d"," ","a","r","g","u","m","e","n","t",","," ","p","r","e","c","i","s","i","o","n"," ","[","r","f","c","3","3","3","9",",","h",",","m",",","s",",","m","s",",","u",",","n","s","]">>),
           Precision |-> <<>>]
     ELSE [err |-> Nil, Precision |-> parts[2]]

\* precision: the error returned and the Precision left.
precision(arg) ==
  LET parts == Fields(arg)
  IN IF Len(parts) <= 1
     THEN [err |-> Ptr(<<"i","n","v","a","l","i","d"," ","a","r","g","u","m","e","n","t",","," ","p","r","e","c","i","s","i","o","n"," ","[","r","f","c","3","3","3","9",",","h",",","m",",","s",",","m","s",",","u",",","n","s","]">>),
           Precision |-> Precision]
     ELSE [err |-> Nil, Precision |-> parts[2]]

\* auth: scanned is what Scanf stored (nil: nothing, Username keeps its value),
\* password what ReadPassword returned.
auth(scanned, password) ==
  [err |-> Nil,
   Username |-> IF scanned = Nil THEN Username ELSE Deref(scanned),
   Password |-> password,
   stdout |-> <<Text(<<"u","s","e","r","n","a","m","e",":"," ">>), Text(<<"p","a","s","s","w","o","r","d",":"," ">>), Text(<<"\n">>)>>]

\* The first line of the usage text of help.
UsageText == <<"U","s","a","g","e",":">>

\* help
help == [err |-> Nil, stdout |-> <<Println(UsageText)>>]

\* write, taking arg[6:] for the line protocol.
write_from6(arg, outcome) ==
  IF Len(arg) < 6
  THEN [panic |-> TRUE, err |-> Nil, requests |-> <<>>]
  ELSE LET res == HttpClient_write([Database |-> Database,
                                    RetentionPolicy |-> RetentionPolicy,
                                    LineProtocol |-> SubSeq(arg, 7, Len(arg))], outcome)
       IN [panic |-> FALSE, err |-> res.err, requests |-> res.requests]

\* write: arg[7:] panics on a line shorter than 7 bytes.
write(arg, outcome) ==
  IF Len(arg) < 7
  THEN [panic |-> TRUE, err |-> Nil, requests |-> <<>>]
  ELSE LET res == HttpClient_write([Database |-> Database,
                                    RetentionPolicy |-> RetentionPolicy,
                                    LineProtocol |-> SubSeq(arg, 8, Len(arg))], outcome)
       IN [panic |-> FALSE, err |-> res.err, requests |-> res.requests]

\* query, returning the decode error of the response as its own error.
query_redecoding(arg, outcome, order) ==
  LET res == HttpClient_query([Database |-> Database,
                               RetentionPolicy |-> RetentionPolicy,
                               Command |-> arg,
                               Precision |-> Precision], outcome)
  IN IF res.err # Nil
     THEN [panic |-> FALSE, err |-> res.err, requests |-> res.requests,
           rendered |-> FALSE, stdout |-> <<>>]
     ELSE LET out == pretty(res.r, order)
          IN [panic |-> out.panic, err |-> Unmarshal(res.r).err, requests |-> res.requests,
              rendered |-> TRUE, stdout |-> out.stdout]

\* query, forwarding only the line's first token as the command.
query_verb(arg, outcome, order) ==
  LET res == HttpClient_query([Database |-> Database,
                               RetentionPolicy |-> RetentionPolicy,
                               Command |-> command(arg),
                               Precision |-> Precision], outcome)
  IN IF res.err # Nil
     THEN [panic |-> FALSE, err |-> res.err, requests |-> res.requests,
           rendered |-> FALSE, stdout |-> <<>>]
     ELSE LET out == pretty(res.r, order)
          IN [panic |-> out.panic, err |-> Nil, requests |-> res.requests,
              rendered |-> TRUE, stdout |-> out.stdout]

\* query, dropping the transport's error and rendering whatever came back.
query_ignoring(arg, outcome, order) ==
  LET res == HttpClient_query([Database |-> Database,
                               RetentionPolicy |-> RetentionPolicy,
                               Command |-> arg,
                               Precision |-> Precision], outcome)
      out == pretty(res.r, order)
  IN [panic |-> out.panic, err |-> Nil, requests |-> res.requests,
      rendered |-> TRUE, stdout |-> out.stdout]

\* query
query(arg, outcome, order) ==
  LET res == HttpClient_query([Database |-> Database,
                               RetentionPolicy |-> RetentionPolicy,
                               Command |-> arg,
                               Precision |-> Precision], outcome)
  IN IF res.err # Nil
     THEN [panic |-> FALSE, err |-> res.err, requests |-> res.requests,
           rendered |-> FALSE, stdout |-> <<>>]
     ELSE LET out == pretty(res.r, order)
          IN [panic |-> out.panic, err |-> Nil, requests |-> res.requests,
              rendered |-> TRUE, stdout |-> out.stdout]

\* The error of the default case, without the token.
unsupported_bare(arg) == Ptr(<<"u","n","s","u","p","p","o","r","t","e","d"," ","c","o","m","m","a","n","d",":"," ">>)

\* The error of executor's default case.
unsupported(arg) == Ptr(<<"u","n","s","u","p","p","o","r","t","e","d"," ","c","o","m","m","a","n","d",":"," ">> \o command(arg))

(***************************************************************************)
(* The bounded responses                                                   *)
(***************************************************************************)

\* The most rows of a series, cells of a row (and columns), series of a result,
\* results of a response.
MaxRows == 2
MaxCells == 2
MaxSeries == 2
MaxResults == 2

TagKeys == {<<"a">>, <<"a","!">>, <<"b">>}
TagValues == {<<"1">>, <<"2">>}
TagMaps == UNION {[K -> TagValues] : K \in SUBSET TagKeys}

Scalars == <<Null, Bool(TRUE), Num(42), Num(1000), Num(2500000), Str(<<"x"," ","y">>)>>
ColumnNames == <<<<"t","i","m","e">>, <<"v","a","l","u","e">>, <<"h","o","s","t">>, <<"r","e","g","i","o","n">>>>

Min(a, b) == IF a < b THEN a ELSE b

ColumnLists == {SubSeq(ColumnNames, 1, n) : n \in 0..Min(MaxCells, Len(ColumnNames))}
\* Rows of every length up to MaxCells (so shorter and longer than the columns),
\* their cells running through Scalars from every start.
Rows ==
  {[i \in 1..n |-> Scalars[((i + off) % Len(Scalars)) + 1]] :
     n \in 0..MaxCells, off \in 0..(Len(Scalars) - 1)}
ValueLists == UNION {[1..n -> Rows] : n \in 0..MaxRows}

\* The series of the specification's round trip, and a series with nothing but a column.
SeriesCpu ==
  Series(<<"c","p","u">>, (<<"a">> :> <<"1">>), <<<<"t","i","m","e">>, <<"v","a","l","u","e">>>>, <<<<Num(1000), Num(42)>>>>)
SeriesBare == Series(<<>>, <<>>, <<<<"t","i","m","e">>>>, <<>>)

OneSeries(series) == JsonBody(QueryResult(<<Ptr(SeriesResult(<<Ptr(series)>>, <<>>))>>, <<>>))

\* One series, with every tag mapping.
TagBodies ==
  {OneSeries(Series(name, tags, <<<<"t","i","m","e">>>>, <<<<Num(1000)>>>>)) :
     name \in {<<>>, <<"c","p","u">>}, tags \in TagMaps}

\* One series, with every table.
TableBodies ==
  {OneSeries(Series(<<"c","p","u">>, <<>>, columns, values)) :
     columns \in ColumnLists, values \in ValueLists}

\* Every arrangement of results and series, null entries among them.
SeriesLists == UNION {[1..n -> {Nil, Ptr(SeriesCpu), Ptr(SeriesBare)}] : n \in 0..MaxSeries}
ResultEntries == {Nil} \cup {Ptr(SeriesResult(list, <<>>)) : list \in SeriesLists}
ShapeBodies ==
  {JsonBody(QueryResult(results, <<>>)) :
     results \in UNION {[1..n -> ResultEntries] : n \in 0..MaxResults}}

\* Responses that carry the server's error strings.
ErrorStrings == {<<>>, <<"d","a","t","a","b","a","s","e"," ","n","o","t"," ","f","o","u","n","d">>}
ErrorBodies ==
  {JsonBody(QueryResult(results, e1)) :
     e1 \in ErrorStrings,
     results \in {<<>>} \cup {<<Ptr(SeriesResult(list, e2))>> :
                                list \in {<<>>, <<Ptr(SeriesCpu)>>}, e2 \in ErrorStrings}}

\* The responses the renderer is checked on: these, TableBodies and ShapeBodies.
PlainBodies == {GarbageBody} \cup TagBodies \cup ErrorBodies

\* The responses a server gives in a session.
SessionBodies == {GarbageBody, OneSeries(SeriesCpu), JsonBody(QueryResult(<<Nil>>, <<>>))}

\* What the transport may do with a request of a session.
Outcomes ==
  {Outcome(e, 0, GarbageBody) : e \in TransportErrors}
    \cup {Outcome(Nil, 200, body) : body \in SessionBodies}
    \cup {Outcome(Nil, 500, JsonBody(QueryResult(<<>>, <<"d","a","t","a","b","a","s","e"," ","n","o","t"," ","f","o","u","n","d">>)))}

\* The tag keys of a response's series.
BodyKeys(r) ==
  UNION {UNION {DOMAIN Deref(sp).Tags : sp \in {Deref(rp).Series[j] : j \in 1..Len(Deref(rp).Series)} \ {Nil}} :
           rp \in {r.value.Results[i] : i \in 1..Len(r.value.Results)} \ {Nil}}

\* The orders in which Go may iterate over maps with these keys.
Orders(keys) ==
  {f \in [1..Cardinality(keys) -> keys] : \A i, j \in 1..Cardinality(keys) : f[i] = f[j] => i = j}

\* The credentials the token is checked on: every string over these characters.
MaxCredLen == 2
CredChars == {"u", ":", "9"}
Credentials == UNION {[1..n -> CredChars] : n \in 0..MaxCredLen}

(***************************************************************************)
(* The session: the prompt's loop, and executor (prompt.go, lines 86-116)  *)
(* with one action for each path through it                                *)
(***************************************************************************)

\* The lines, each with what executor's first statements compute of it.
Inputs ==
  {[raw |-> line,
    s |-> TrimSpace(line),
    command |-> IF TrimSpace(line) = <<>> THEN <<>> ELSE command(TrimSpace(line))] :
     line \in Lines}

Init ==
  /\ Username = <<>> /\ Password = <<>> /\ Precision = <<>>
  /\ Database = <<>> /\ RetentionPolicy = <<>>
  /\ BasicToken = <<>>
  /\ pc = "prompt"
  /\ s = <<>> /\ ran = <<>> /\ rendered = FALSE /\ stdout = <<>> /\ requests = <<>>
  /\ transport = NoOutcome
  /\ lastUse = <<>>
  /\ afterFailure = FALSE

\* Lines 87-93: the line is not empty and does not end the process.
Dispatched(in) == pc = "prompt" /\ Len(in.s) # 0 /\ in.s \notin ExitLines

\* Lines 113-115 and the return to the prompt; a panic ends the process instead.
Returns(in, handler, out, err, panic) ==
  /\ s' = in.s
  /\ ran' = <<handler>>
  /\ stdout' = out \o (IF ~panic /\ err # Nil THEN <<Println(Deref(err))>> ELSE <<>>)
  /\ pc' = IF panic THEN "crashed" ELSE "returned"
  /\ lastUse' = LET parts == Fields(in.s)
                IN IF Len(parts) >= 2 /\ parts[1] = Use THEN parts[2] ELSE lastUse
  /\ UNCHANGED <<BasicToken, afterFailure>>

\* A path of executor that makes no request.
Offline == rendered' = FALSE /\ requests' = <<>> /\ transport' = NoOutcome

\* Lines 88-90: an empty line.
ExecutorEmpty(in) ==
  /\ pc = "prompt"
  /\ Len(in.s) = 0
  /\ pc' = "returned"
  /\ s' = in.s /\ ran' = <<>> /\ stdout' = <<>>
  /\ Offline
  /\ UNCHANGED <<Session, BasicToken, lastUse, afterFailure>>

\* Lines 91-93, comparing the line's first token instead of the whole line.
ExecutorExit_prefix(in) ==
  /\ pc = "prompt"
  /\ Len(in.s) # 0
  /\ in.command \in ExitLines
  /\ pc' = "exited"
  /\ s' = in.s /\ ran' = <<>> /\ stdout' = <<>>
  /\ Offline
  /\ UNCHANGED <<Session, BasicToken, lastUse, afterFailure>>

\* Lines 91-93 without the call of deconstruct: the line goes on to the switch.
ExecutorExit_returning(in) ==
  /\ pc = "prompt"
  /\ in.s \in ExitLines
  /\ Returns(in, "default", <<>>, unsupported(in.s), FALSE)
  /\ Offline
  /\ UNCHANGED Session

\* Lines 91-93 and deconstruct: os.Exit(0).
ExecutorExit(in) ==
  /\ pc = "prompt"
  /\ in.s \in ExitLines
  /\ pc' = "exited"
  /\ s' = in.s /\ ran' = <<>> /\ stdout' = <<>>
  /\ Offline
  /\ UNCHANGED <<Session, BasicToken, lastUse, afterFailure>>

ExecutorHelp(in) ==
  /\ Dispatched(in)
  /\ in.command = Help
  /\ Returns(in, "help", help.stdout, help.err, FALSE)
  /\ Offline
  /\ UNCHANGED Session

ExecutorUse(in) ==
  /\ Dispatched(in)
  /\ in.command = Use
  /\ Database' = use(in.s).Database
  /\ Returns(in, "use", <<>>, use(in.s).err, FALSE)
  /\ Offline
  /\ UNCHANGED <<RetentionPolicy, Precision, Username, Password>>

ExecutorRp(in) ==
  /\ Dispatched(in)
  /\ in.command = Rp
  /\ RetentionPolicy' = retentionPolicy(in.s).RetentionPolicy
  /\ Returns(in, "retentionPolicy", <<>>, retentionPolicy(in.s).err, FALSE)
  /\ Offline
  /\ UNCHANGED <<Database, Precision, Username, Password>>

ExecutorAuth(in) ==
  /\ Dispatched(in)
  /\ in.command = Auth
  /\ \E scanned \in ScanResults, password \in PasswordResults :
       /\ Username' = auth(scanned, password).Username
       /\ Password' = auth(scanned, password).Password
       /\ Returns(in, "auth", auth(scanned, password).stdout,
                  auth(scanned, password).err, FALSE)
  /\ Offline
  /\ UNCHANGED <<Database, RetentionPolicy, Precision>>

ExecutorPrecision(in) ==
  /\ Dispatched(in)
  /\ in.command = PrecisionCommand
  /\ Precision' = precision(in.s).Precision
  /\ Returns(in, "precision", <<>>, precision(in.s).err, FALSE)
  /\ Offline
  /\ UNCHANGED <<Database, RetentionPolicy, Username, Password>>

ExecutorInsert(in) ==
  /\ Dispatched(in)
  /\ in.command = Insert
  /\ \E outcome \in Outcomes :
       LET res == write(in.s, outcome)
       IN /\ Returns(in, "write", <<>>, res.err, res.panic)
          /\ requests' = res.requests
          /\ transport' = IF res.requests = <<>> THEN NoOutcome ELSE outcome
  /\ rendered' = FALSE
  /\ UNCHANGED Session

ExecutorQuery(in) ==
  /\ Dispatched(in)
  /\ in.command \in QueryCommands
  /\ \E outcome \in Outcomes :
       \E order \in Orders(BodyKeys(outcome.body)) :
         LET res == query(in.s, outcome, order)
         IN /\ Returns(in, "query", res.stdout, res.err, res.panic)
            /\ requests' = res.requests
            /\ rendered' = res.rendered
            /\ transport' = IF res.requests = <<>> THEN NoOutcome ELSE outcome
  /\ UNCHANGED Session

\* Lines 110-112: the default case.
ExecutorDefault(in) ==
  /\ Dispatched(in)
  /\ in.command \notin QueryCommands \cup {Help, Use, Rp, Auth, PrecisionCommand, Insert}
  /\ Returns(in, "default", <<>>, unsupported(in.s), FALSE)
  /\ Offline
  /\ UNCHANGED Session

\* The front end's loop (cl.prompt.Run, line 83) goes on to read the next line.
Prompt ==
  /\ pc = "returned"
  /\ pc' = "prompt"
  /\ s' = <<>> /\ ran' = <<>> /\ stdout' = <<>>
  /\ Offline
  /\ afterFailure' = (s # <<>> /\ command(s) \in QueryCommands /\ transport.err # Nil)
  /\ UNCHANGED <<Session, BasicToken, lastUse>>

\* deconstruct, as the Control-C key binding and the end of Run call it.
Deconstruct ==
  /\ pc = "prompt"
  /\ pc' = "exited"
  /\ UNCHANGED <<Session, BasicToken, observed, lastUse, afterFailure>>

Next ==
  \/ \E in \in Inputs :
       \/ ExecutorEmpty(in)
       \/ ExecutorExit(in)
       \/ ExecutorHelp(in)
       \/ ExecutorUse(in)
       \/ ExecutorRp(in)
       \/ ExecutorAuth(in)
       \/ ExecutorPrecision(in)
       \/ ExecutorInsert(in)
       \/ ExecutorQuery(in)
       \/ ExecutorDefault(in)
  \/ Prompt
  \/ Deconstruct

Spec == Init /\ [][Next]_vars

(***************************************************************************)
(* The renderer on its own: pretty applied to each response                *)
(***************************************************************************)

InitRender ==
  /\ Username = <<>> /\ Password = <<>> /\ Precision = <<>>
  /\ Database = <<>> /\ RetentionPolicy = <<>>
  /\ BasicToken = <<>>
  /\ pc = "response"
  /\ s = <<>> /\ ran = <<>> /\ rendered = FALSE /\ stdout = <<>> /\ requests = <<>>
  /\ \/ transport \in {Outcome(Nil, 200, body) : body \in PlainBodies}
     \/ transport \in {Outcome(Nil, 200, body) : body \in TableBodies}
     \/ transport \in {Outcome(Nil, 200, body) : body \in ShapeBodies}
  /\ lastUse = <<>>
  /\ afterFailure = FALSE

\* pretty(b), under each order of iteration over the tags.
Render ==
  /\ pc = "response"
  /\ \E order \in Orders(BodyKeys(transport.body)) :
       LET out == pretty(transport.body, order)
       IN /\ stdout' = out.stdout
          /\ pc' = IF out.panic THEN "crashed" ELSE "returned"
  /\ rendered' = TRUE
  /\ UNCHANGED <<Session, BasicToken, s, ran, requests, transport, lastUse, afterFailure>>

NextRender == Render

SpecRender == InitRender /\ [][NextRender]_vars

(***************************************************************************)
(* The token on its own: generateBasicToken, then a request                *)
(***************************************************************************)

InitToken ==
  /\ Username \in Credentials /\ Password \in Credentials
  /\ Precision = <<>> /\ Database = <<>> /\ RetentionPolicy = <<>>
  /\ BasicToken = <<>>
  /\ pc = "token"
  /\ s = <<>> /\ ran = <<>> /\ rendered = FALSE /\ stdout = <<>> /\ requests = <<>>
  /\ transport = NoOutcome
  /\ lastUse = <<>>
  /\ afterFailure = FALSE

\* stdHttpClient.generateBasicToken(Username, Password)
TokenGenerate ==
  /\ pc = "token"
  /\ BasicToken' = generateBasicToken(Username, Password)
  /\ pc' = "request"
  /\ UNCHANGED <<Session, observed, lastUse, afterFailure>>

\* stdHttpClient.query of a command
TokenRequest ==
  /\ pc = "request"
  /\ \E outcome \in Outcomes :
       /\ requests' = HttpClient_query([Database |-> Database,
                                        RetentionPolicy |-> RetentionPolicy,
                                        Command |-> Show,
                                        Precision |-> Precision], outcome).requests
       /\ transport' = outcome
  /\ pc' = "returned"
  /\ UNCHANGED <<Session, BasicToken, s, ran, rendered, stdout, lastUse, afterFailure>>

NextToken == TokenGenerate \/ TokenRequest

SpecToken == InitToken /\ [][NextToken]_vars

(***************************************************************************)
(* The claims                                                              *)
(***************************************************************************)

\* The first whitespace-delimited token of a line that has one.
FirstToken(line) == Fields(line)[1]

\* The recognized command set.
Recognized ==
  QueryCommands \cup {Help, Use, Rp, Auth, PrecisionCommand, Insert}

\* This step is a call of executor on a line that is not empty and does not quit.
Executes == pc = "prompt" /\ pc' \in {"returned", "crashed"} /\ s' # <<>>

\* C1: every trimmed, non-empty line other than exit, quit and \q (the bare line
\* "insert" among them) runs exactly one handler and returns normally to the
\* prompt loop, which goes on to the next line: no line crashes the process.
C1_FailureIsolation ==
  (pc \in {"returned", "crashed"} /\ s # <<>> /\ s \notin ExitLines)
    => (pc = "returned" /\ Len(ran) = 1)

\* C2: a line whose first token is no recognized command (matching is
\* case-sensitive) and that does not quit prints one error, "unsupported command: "
\* with the token in it, issues no HTTP request and changes no session field.
C2_Unsupported ==
  [][(Executes /\ FirstToken(s') \notin Recognized)
       => /\ pc' = "returned"
          /\ Len(stdout') = 1
          /\ HasPrefix(stdout'[1].text, <<"u","n","s","u","p","p","o","r","t","e","d"," ","c","o","m","m","a","n","d",":"," ">>)
          /\ Contains(stdout'[1].text, FirstToken(s'))
          /\ requests' = <<>>
          /\ Session' = Session]_vars

\* "USE db", with the session's database set, has been reported as unsupported.
C2_Witness ==
  /\ pc = "returned"
  /\ s = <<"U","S","E"," ","d","b">>
  /\ Database = <<"r","=","1">>
  /\ stdout # <<>>

\* The requests to /query among the requests of the call.
QueryRequests ==
  SelectSeq(requests, LAMBDA req : req.url = <<"h","t","t","p",":","/","/">> \o Host \o <<":">> \o Itoa(Port) \o <<"/","q","u","e","r","y">>)

\* C3: every request sent to /query has one db form field, and it is the second
\* token of the most recent "use" line that had at least two tokens (empty if
\* there was none), whatever lines came in between.
C3_QueryDb ==
  \A i \in 1..Len(QueryRequests) : FormValues(QueryRequests[i].body, <<"d","b">>) = <<lastUse>>

\* A query was sent with the database of a "use" line, the retention policy
\* being another name.
C3_Witness ==
  /\ pc = "returned"
  /\ Len(QueryRequests) = 1
  /\ lastUse = <<"r","=","1">>
  /\ RetentionPolicy = <<"d","b">>

\* The session's field that a use, rp or precision line sets.
FieldOf(cmd, session) ==
  CASE cmd = Use -> session[1]
    [] cmd = Rp -> session[2]
    [] OTHER -> session[3]

\* The session's other fields.
OthersOf(cmd, session) ==
  CASE cmd = Use -> <<session[2], session[3], session[4], session[5]>>
    [] cmd = Rp -> <<session[1], session[3], session[4], session[5]>>
    [] OTHER -> <<session[1], session[2], session[4], session[5]>>

\* C4: a use, rp or precision line with fewer than 2 tokens prints an
\* invalid-argument error and changes no session field; with 2 or more tokens
\* it sets its own field to the second token, changes no other field and
\* prints no error.
C4_Arity ==
  [][(Executes /\ FirstToken(s') \in {Use, Rp, PrecisionCommand})
       => /\ pc' = "returned"
          /\ IF Len(Fields(s')) < 2
             THEN /\ Len(stdout') = 1
                  /\ HasPrefix(stdout'[1].text, <<"i","n","v","a","l","i","d"," ","a","r","g","u","m","e","n","t">>)
                  /\ Session' = Session
             ELSE /\ stdout' = <<>>
                  /\ FieldOf(FirstToken(s'), Session') = Fields(s')[2]
                  /\ OthersOf(FirstToken(s'), Session') = OthersOf(FirstToken(s'), Session)]_vars

\* A bare "use" has failed with the session's database set.
C4_Witness ==
  /\ pc = "returned"
  /\ s = Use
  /\ Database = <<"d","b">>
  /\ stdout # <<>>

\* C5: an "insert <payload>" line, processed while the session's database is d
\* and its retention policy r, issues exactly one request, to /write?db=d&rp=r,
\* whose body is the trimmed line without its first 7 characters.
C5_Write ==
  [][(Executes /\ FirstToken(s') = Insert /\ Len(Fields(s')) >= 2)
       => /\ Len(requests') = 1
          /\ requests'[1].url = <<"h","t","t","p",":","/","/">> \o Host \o <<":">> \o Itoa(Port)
                                  \o <<"/","w","r","i","t","e","?","d","b","=">> \o Database \o <<"&","r","p","=">> \o RetentionPolicy
          /\ requests'[1].body = SubSeq(s', 8, Len(s'))]_vars

\* An insert line of three tokens, a tab and a space after "insert", has been
\* written with a database and a retention policy set.
C5_Witness ==
  /\ pc = "returned"
  /\ s = <<"i","n","s","e","r","t","\t"," ","d","b","\t"," ","v","=","2">>
  /\ Len(requests) = 1
  /\ requests[1].body = <<" ","d","b","\t"," ","v","=","2">>
  /\ Database = <<"d","b">>
  /\ RetentionPolicy = <<"r","=","1">>

\* The Authorization header that credentials u and p call for.
BasicAuth(u, p) == <<"B","a","s","i","c"," ">> \o EncodeToString(u \o <<":">> \o p)

\* C6: once auth has stored a username u and a password p in the session, every
\* query and write request carries the Authorization header "Basic " followed by
\* the Base64 of "u:p"; while no credentials are set, no request carries one.
C6_Authorization ==
  \A i \in 1..Len(requests) :
    /\ Username # <<>> => requests[i].Authorization = Ptr(BasicAuth(Username, Password))
    /\ (Username = <<>> /\ Password = <<>>) => requests[i].Authorization = Nil

\* C7: for every username and password, the header that innerRequest writes from
\* the token generateBasicToken stored holds "Basic " exactly once: it is
\* "Basic " followed by the Base64 of "username:password".
C7_OneBasic ==
  \A i \in 1..Len(requests) :
    /\ requests[i].Authorization # Nil
    /\ Count(Deref(requests[i].Authorization), <<"B","a","s","i","c"," ">>) = 1
    /\ Deref(requests[i].Authorization) = BasicAuth(Username, Password)

\* C8: when the transport fails on a query line, the call prints the transport's
\* error and nothing else, does not invoke the renderer, changes no session
\* field and returns to the prompt loop, which goes on to the next line.
C8_TransportFailure ==
  [][(Executes /\ FirstToken(s') \in QueryCommands /\ transport'.err # Nil)
       => /\ pc' = "returned"
          /\ stdout' = <<Println(Deref(transport'.err))>>
          /\ ~rendered'
          /\ Len(requests') = 1
          /\ Session' = Session]_vars

\* A line has been processed by its handler right after a query line on which
\* the transport failed, the session's fields set before the failure still there.
C8_Witness ==
  /\ afterFailure
  /\ pc = "returned"
  /\ Len(ran) = 1
  /\ Database = <<"d","b">>
  /\ lastUse = <<"d","b">>

\* The series of a response in input order: results, then the series of each,
\* null entries left out.
SeriesOf(qr) ==
  LET results == SelectSeq(qr.Results, LAMBDA rp : rp # Nil)
      lists == [i \in 1..Len(results) |->
                  LET present == SelectSeq(Deref(results[i]).Series, LAMBDA sp : sp # Nil)
                  IN [j \in 1..Len(present) |-> Deref(present[j])]]
  IN Concat(lists)

\* The "tags:" line of a tag mapping, its pairs in ascending order of key.
TagsLineByKey(tagMap) ==
  LET keys == SortedKeys(DOMAIN tagMap)
  IN <<"t","a","g","s",":"," ">> \o Join([i \in 1..Len(keys) |-> keys[i] \o <<"=">> \o tagMap[keys[i]]], <<","," ">>) \o <<"\n">>

\* C9: whatever the order of iteration over a series' tags, the "tags:" line
\* lists the key=value pairs in ascending order of key, also when a key is a
\* prefix of another or holds a character that sorts before "=".
C9_TagsByKey ==
  (pc = "returned" /\ transport.body.valid)
    => LET tagged == SelectSeq(SeriesOf(transport.body.value), LAMBDA series : DOMAIN series.Tags # {})
           lines == SelectSeq(stdout, LAMBDA out : out.kind = "text" /\ HasPrefix(out.text, <<"t","a","g","s",":"," ">>))
       IN lines = [i \in 1..Len(tagged) |-> Text(TagsLineByKey(tagged[i].Tags))]

\* The table and the caption that a series calls for.
TableOf(series) ==
  <<Table(series.Columns,
          [i \in 1..Len(series.Values) |->
             [j \in 1..Len(series.Values[i]) |-> Sprintf_v(series.Values[i][j])]]),
    Text(Itoa(Len(series.Columns)) \o <<" ","c","o","l","u","m","n","s",","," ">> \o Itoa(Len(series.Values)) \o <<" ","r","o","w","s"," ","i","n"," ","s","e","t","\n">>)>>

\* Each table written, with what was written right after it.
TablesIn(out) ==
  LET at == SelectSeq([i \in 1..Len(out) |-> i], LAMBDA i : out[i].kind = "table")
  IN [k \in 1..Len(at) |-> <<out[at[k]], IF at[k] < Len(out) THEN out[at[k] + 1] ELSE Text(<<>>)>>]

\* C10: every series of a decoded response is rendered as a table whose header
\* is its columns and whose rows are its values in order, each cell in its
\* default string form, followed by the caption "<columns> columns, <rows> rows
\* in set"; the series come in input order, none skipped.
C10_Tables ==
  (pc \in {"returned", "crashed"} /\ transport.body.valid)
    => LET all == SeriesOf(transport.body.value)
       IN TablesIn(stdout) = [i \in 1..Len(all) |-> TableOf(all[i])]

\* C11: a line equal to exit, quit or \q ends the session: no handler runs for
\* it, no HTTP request is issued, no session field changes, and no line is
\* processed after it (nothing happens once the process has exited).
C11_Exit ==
  [][/\ (pc = "prompt" /\ s' \in {<<"e","x","i","t">>, <<"q","u","i","t">>, <<"\\","q">>})
          => /\ pc' = "exited"
             /\ ran' = <<>>
             /\ requests' = <<>>
             /\ stdout' = <<>>
             /\ Session' = Session
     /\ pc # "exited"]_vars

\* The line \q has ended a session that had a database.
C11_Witness ==
  /\ pc = "exited"
  /\ s = <<"\\","q">>
  /\ Database = <<"d","b">>
  /\ ran = <<>>

\* C12: a line whose first token is show, drop, create, explain, kill, grant,
\* alter, revoke or set sends one request to /query whose q field is the whole
\* line as executor received it, whose rp field is the session's retention
\* policy and whose epoch field is the session's precision; when the transport
\* succeeds the response is handed to the renderer.
C12_QueryForm ==
  [][(Executes /\ FirstToken(s') \in {Show, Drop, Create, Explain, Kill, Grant, Alter, Revoke, Set})
       => /\ Len(requests') = 1
          /\ requests'[1].url = <<"h","t","t","p",":","/","/">> \o Host \o <<":">> \o Itoa(Port) \o <<"/","q","u","e","r","y">>
          /\ FormValues(requests'[1].body, <<"q">>) = <<s'>>
          /\ FormValues(requests'[1].body, <<"r","p">>) = <<RetentionPolicy>>
          /\ FormValues(requests'[1].body, <<"e","p","o","c","h">>) = <<Precision>>
          /\ (transport'.err = Nil => rendered')]_vars

\* A show line of three tokens, tabs between them, has been sent and its
\* response rendered, the retention policy and the precision being set.
C12_Witness ==
  /\ pc = "returned"
  /\ s = <<"s","h","o","w","\t"," ","d","b","\t"," ","v","=","2">>
  /\ rendered
  /\ Len(requests) = 1
  /\ FormValues(requests[1].body, <<"q">>) = <<s>>
  /\ RetentionPolicy = <<"r","=","1">>
  /\ Precision = <<"d","b">>

\* C13: on every response body that decodes into a QueryResult, null entries in
\* its results or series arrays included, the renderer completes.
C13_Completes ==
  (pc \in {"returned", "crashed"} /\ transport.body.valid) => pc = "returned"

\* The tables written to standard output.
TablesOf(out) == SelectSeq(out, LAMBDA o : o.kind = "table")

\* C14: for a row whose length differs from the number of columns, the renderer
\* does not fail, and the row that it hands to the table formatter has exactly
\* len(columns) cells (truncated or padded).
C14_RowWidth ==
  (pc \in {"returned", "crashed"} /\ transport.body.valid
     /\ transport.body \in TableBodies)
    => /\ pc = "returned"
       /\ \A i \in 1..Len(TablesOf(stdout)) :
            \A j \in 1..Len(TablesOf(stdout)[i].rows) :
              Len(TablesOf(stdout)[i].rows[j]) = Len(TablesOf(stdout)[i].header)

\* C15: when the response bytes of a query do not decode into a QueryResult, the
\* decode failure is printed exactly once and nothing else is written for that
\* response (no name or tags line, no table, no caption); the call returns to
\* the prompt loop with the session as it was.
C15_DecodeFailure ==
  [][(Executes /\ FirstToken(s') \in QueryCommands
        /\ transport'.err = Nil /\ ~transport'.body.valid)
       => /\ pc' = "returned"
          /\ rendered'
          /\ stdout' = <<Println(Deref(Unmarshal(transport'.body).err))>>
          /\ Session' = Session]_vars

\* A query line has been answered with bytes that are no JSON, in a session
\* that has a database.
C15_Witness ==
  /\ pc = "returned"
  /\ s = <<"s","h","o","w">>
  /\ rendered
  /\ transport.err = Nil
  /\ ~transport.body.valid
  /\ Len(stdout) = 1
  /\ Database = <<"d","b">>

\* C16: the outcome of a request does not depend on the HTTP status code: with
\* any status a write succeeds (nothing is reported) and a query hands the
\* response's body on to the renderer; an error comes back, and is the one
\* reported, exactly when the transport itself failed.
C16_StatusBlind ==
  (pc \in {"returned", "crashed"} /\ Len(requests) = 1)
    => IF FirstToken(s) = Insert
       THEN stdout = (IF transport.err = Nil THEN <<>> ELSE <<Println(Deref(transport.err))>>)
       ELSE /\ rendered <=> (transport.err = Nil)
            /\ transport.err # Nil => stdout = <<Println(Deref(transport.err))>>
            /\ transport.err = Nil
                 => \E order \in Orders(BodyKeys(transport.body)) :
                      stdout = pretty(transport.body, order).stdout

\* A write has been answered with status 500 and nothing was reported.
C16_Witness ==
  /\ pc = "returned"
  /\ Len(requests) = 1
  /\ FirstToken(s) = Insert
  /\ transport.err = Nil
  /\ transport.status = 500
  /\ stdout = <<>>

\* C17: no retry and no pipelining: each insert or query-verb line issues
\* exactly one HTTP request, whether it succeeds or fails, and a failure is
\* reported exactly once; every other line (help, use, rp, precision, auth,
\* unsupported, empty) issues none. The call is over, its request with it,
\* before the next line is taken.
C17_OneRequest ==
  (pc \in {"returned", "crashed"})
    => IF s # <<>> /\ FirstToken(s) \in QueryCommands \cup {Insert}
       THEN /\ Len(requests) = 1
            /\ transport.err # Nil => stdout = <<Println(Deref(transport.err))>>
       ELSE requests = <<>>

\* A response without its error strings.
WithoutErrors(qr) ==
  [Error |-> <<>>,
   Results |-> [i \in 1..Len(qr.Results) |->
                  IF qr.Results[i] = Nil THEN Nil
                  ELSE Ptr([Deref(qr.Results[i]) EXCEPT !.Error = <<>>])]]

\* C18: what is rendered does not depend on the error strings of the response:
\* a response that differs from the rendered one only in the error fields of
\* QueryResult or SeriesResult renders to the same output, and a response with
\* an error and no series writes nothing, neither a table nor the error.
C18_ErrorBlind ==
  (pc = "returned" /\ transport.body \in ErrorBodies)
    => /\ \A other \in ErrorBodies :
            WithoutErrors(other.value) = WithoutErrors(transport.body.value)
              => \A order \in Orders(BodyKeys(other)) : pretty(other, order).stdout = stdout
       /\ SeriesOf(transport.body.value) = <<>> => stdout = <<>>

\* A response with nothing but the error "database not found" has been
\* rendered, and nothing was written.
C18_Witness ==
  /\ pc = "returned"
  /\ transport.body.valid
  /\ transport.body.value.Error = <<"d","a","t","a","b","a","s","e"," ","n","o","t"," ","f","o","u","n","d">>
  /\ transport.body.value.Results = <<>>
  /\ stdout = <<>>

\* This step is a call of executor on a line whose first token is cmd and whose
\* handler returned no error.
Succeeds(cmd) == Executes /\ FirstToken(s') = cmd /\ pc' = "returned" /\ stdout' = <<>>

\* C19: across any sequence of lines, the database changes only in a successful
\* use, the retention policy only in a successful rp, the precision only in a
\* successful precision, the username and the password only in auth; help,
\* insert, query-verb, unsupported and whitespace-only lines, and every handler
\* that returns an error, leave all five session fields as they were.
C19_Frame ==
  [][/\ Database' # Database => Succeeds(Use)
     /\ RetentionPolicy' # RetentionPolicy => Succeeds(Rp)
     /\ Precision' # Precision => Succeeds(PrecisionCommand)
     /\ <<Username, Password>>' # <<Username, Password>>
          => (Executes /\ FirstToken(s') = Auth)
     /\ (pc = "prompt"
           /\ (\/ s' = <<>>
               \/ FirstToken(s') \notin {Use, Rp, PrecisionCommand, Auth}
               \/ (FirstToken(s') # Auth /\ stdout' # <<>>)))
          => Session' = Session]_vars

\* A bare "precision" has failed in a session whose five fields were all set.
C19_Witness ==
  /\ pc = "returned"
  /\ s = PrecisionCommand
  /\ stdout # <<>>
  /\ Database # <<>> /\ RetentionPolicy # <<>> /\ Precision # <<>>
  /\ Username # <<>> /\ Password # <<>>

\* C20: a line ends the session only when the whole trimmed line is exit, quit
\* or \q: a line that begins with one of them and has further tokens ("exit
\* now") does not end it and is reported as an unsupported command; a line of
\* nothing but whitespace runs no handler, prints nothing and changes nothing.
C20_WholeLine ==
  [][/\ (pc = "prompt" /\ pc' = "exited" /\ s' # <<>>)
          => s' \in {<<"e","x","i","t">>, <<"q","u","i","t">>, <<"\\","q">>}
     /\ (pc = "prompt" /\ s' # <<>>
           /\ FirstToken(s') \in {<<"e","x","i","t">>, <<"q","u","i","t">>, <<"\\","q">>} /\ Len(Fields(s')) > 1)
          => /\ pc' = "returned"
             /\ stdout' = <<Println(<<"u","n","s","u","p","p","o","r","t","e","d"," ","c","o","m","m","a","n","d",":"," ">> \o FirstToken(s'))>>
             /\ requests' = <<>>
             /\ Session' = Session
     /\ (pc = "prompt" /\ pc' # "exited" /\ s' = <<>>)
          => /\ pc' = "returned"
             /\ ran' = <<>> /\ stdout' = <<>> /\ requests' = <<>>
             /\ Session' = Session]_vars

\* "exit db", a tab and a space between the tokens, has been reported as
\* unsupported in a session that goes on.
C20_Witness ==
  /\ pc = "returned"
  /\ s = <<"e","x","i","t","\t"," ","d","b">>
  /\ Len(stdout) = 1
  /\ ran = <<"default">>

====
